---------------------------- MODULE Spec2Model ----------------------------
(***************************************************************************)
(* Labyrinth Legends tournament contract                                   *)
(* (contracts/labyrinth_tournament/src/{lib,state,contract,service}.rs).   *)
(*                                                                         *)
(* One chain runs the application: operations (execute_operation) and the  *)
(* ApplyRun messages the operations send to the hub chain                  *)
(* (execute_message) are executed one at a time on the same store.         *)
(*                                                                         *)
(* Every handler is a pure operator from the store (a record with one      *)
(* field per view of LabyrinthState) to the store it leaves behind; the    *)
(* actions commit the result to the variables.                             *)
(*                                                                         *)
(* Timestamps are counted in days: one unit of the clock stands for        *)
(* 24*60*60*1_000_000 microseconds.                                        *)
(***************************************************************************)
EXTENDS Integers, Sequences, FiniteSets, TLC

VARIABLES
    next_tournament_id,     \* RegisterView<u64>
    next_run_id,            \* RegisterView<u64>
    signer_to_wallet,       \* MapView<AccountOwner, [u8; 20]>
    tournaments,            \* MapView<u64, Tournament>
    active_tournament_id,   \* RegisterView<Option<u64>>
    active_tournament,      \* RegisterView<Option<Tournament>>
    players,                \* MapView<[u8; 20], Player>
    username_to_wallet,     \* MapView<String, [u8; 20]>
    tournament_players,     \* MapView<(u64, [u8; 20]), TournamentPlayer>
    leaderboards,           \* MapView<u64, Vec<LeaderboardEntry>>
    runs,                   \* MapView<u64, GameRun>
    recent_runs,            \* RegisterView<Vec<u64>>
    rewards,                \* MapView<(u64, [u8; 20]), TournamentReward>
    inbox,                  \* ApplyRun messages sent and not yet executed
    now,                    \* runtime.system_time()
    xp_call                 \* a call of Difficulty::calculate_xp: its arguments
                            \* and, once it has returned, its result

store_vars == <<next_tournament_id, next_run_id, signer_to_wallet, tournaments,
                active_tournament_id, active_tournament, players,
                username_to_wallet, tournament_players, leaderboards, runs,
                recent_runs, rewards>>

vars == <<next_tournament_id, next_run_id, signer_to_wallet, tournaments,
          active_tournament_id, active_tournament, players,
          username_to_wallet, tournament_players, leaderboards, runs,
          recent_runs, rewards, inbox, now, xp_call>>

-----------------------------------------------------------------------------
(* Bounds of the model *)

\* ApplyRun messages sent and not yet executed
MaxInbox == 1
\* runs recorded plus messages in flight
MaxRuns == 2
\* the same, where the runs are made to tie
MaxTieRuns == 3
\* CreateTournament is offered while next_tournament_id <= MaxTournamentId
MaxTournamentId == 2

-----------------------------------------------------------------------------
(* Program constants *)

\* const DURATION_DAYS: u64 = 15
DURATION_DAYS == 15
\* xp_reward_pool of tournament 1
DEFAULT_POOL == 10000
\* leaderboard.truncate(100)
LEADERBOARD_CAP == 100
\* recent.truncate(100)
RECENT_CAP == 100
\* leaderboard.iter().take(5)
MAX_WINNERS == 5
\* u64::MAX, the largest value of the model's integers
U64_MAX == 2147483647
\* u32::MAX, scaled down with u64::MAX: as in the code, ten times a u32 is
\* far inside the u64 range
U32_MAX == 65535
\* "labyrinth_legends_{now.micros() / 1_000_000}": seconds in one unit of the clock
SECS_PER_DAY == 86400
\* service.rs START_TIME, 1769904000 s after the epoch (1 February 2026), in days
START_TIME == 20485

reward_percentages == <<40, 25, 15, 12, 8>>

-----------------------------------------------------------------------------
(* Values *)

None == [some |-> FALSE]
Some(v) == [some |-> TRUE, val |-> v]

Min(a, b) == IF a < b THEN a ELSE b
Max(a, b) == IF a > b THEN a ELSE b

\* MapView::insert
Put(m, k, v) == (k :> v) @@ m

EmptyMap == [x \in {} |-> 0]

\* A wallet [u8; 20] is <<its first 4 bytes, its other 16 bytes>>.
WalletA == <<1, 1>>
WalletB == <<2, 1>>
Wallets == {WalletA, WalletB}

\* AccountOwner: Address20 carries a wallet address, the other forms do not.
Address20(w) == <<"Address20", w>>
SignerA == Address20(WalletA)
SignerX == <<"Address32", <<9, 9>>>>
Signers == {SignerA, SignerX}

\* format!("Player_{}", hex::encode(&wallet[0..4])): only the first 4 bytes
DefaultUsername(wallet) == <<"Player_", wallet[1]>>

\* the usernames RegisterPlayer is called with: a name, and the name
\* get_or_create_player gives WalletA
Alice == <<"alice", 0>>
Usernames == {Alice, DefaultUsername(WalletA)}

\* RegisterPlayer payloads: <<signer, wallet_address, username>>
RegisterInputs == {<<SignerX, WalletB, Alice>>,
                   <<SignerX, WalletB, DefaultUsername(WalletA)>>,
                   <<SignerA, WalletA, Alice>>,
                   <<SignerX, WalletA, Alice>>}

Difficulties == {"Easy", "Medium", "Hard", "Nightmare"}

\* runs: <<time_ms, score, coins, deaths, completed>>
RunFast == <<60000, 20, 3, 0, TRUE>>
RunSlow == <<70000, 10, 0, 1, TRUE>>
RunFailed == <<50000, 30, 0, 6, FALSE>>
RunInputs == {RunFast, RunSlow, RunFailed}

\* tournament ids the operations are called with (the largest never exists)
TournamentIdInputs == 1..(MaxTournamentId + 1)

\* SubmitRun payloads: <<tournament_id, run>>
SubmitInputs == {<<1, r>> : r \in RunInputs}
                \cup {<<tid, RunFast>> : tid \in TournamentIdInputs}

\* CreateTournament payloads: <<difficulty, duration_days, xp_reward_pool>>
CreateInputs == {<<"Hard", 0, 500>>, <<"Hard", 1, 500>>}

\* the values the clock takes
Times == {0, DURATION_DAYS}

\* calculate_xp arguments: times around the whole seconds and the two-minute
\* limit of the time bonus, deaths around the cap of the penalty, and the
\* largest values of both
XpTimes == {0, 999, 1000, 59999, 60000, 119000, 119999, 120000, 180000, 500000,
            U64_MAX}
XpDeaths == 0..11 \cup {U32_MAX}
XpCalls == [difficulty : Difficulties, time_ms : XpTimes, deaths : XpDeaths,
            completed : BOOLEAN, result : {None}]

-----------------------------------------------------------------------------
(* lib.rs: XP *)

base_xp(d) ==
    CASE d = "Easy" -> 75
      [] d = "Medium" -> 100
      [] d = "Hard" -> 125
      [] d = "Nightmare" -> 150

\* a bug: the time bonus is computed whatever the time
calculate_xp_unguarded_bonus(d, time_ms, deaths, completed) ==
    LET base == base_xp(d)
        completion_bonus == IF completed THEN base ELSE 0
        time_secs == time_ms \div 1000
        time_bonus == IF completed
                      THEN (base * (120 - time_secs)) \div 120
                      ELSE 0
        death_penalty == Min(deaths * 10, 50)
        death_multiplier == 100 - death_penalty
        raw_xp == ((base + completion_bonus + time_bonus) * death_multiplier) \div 100
    IN  Max(10, raw_xp)

\* a bug: the death penalty is not capped at 50
calculate_xp_uncapped_penalty(d, time_ms, deaths, completed) ==
    LET base == base_xp(d)
        completion_bonus == IF completed THEN base ELSE 0
        time_secs == time_ms \div 1000
        time_bonus == IF completed /\ time_secs < 120
                      THEN (base * (120 - time_secs)) \div 120
                      ELSE 0
        death_penalty == deaths * 10
        death_multiplier == 100 - death_penalty
        raw_xp == ((base + completion_bonus + time_bonus) * death_multiplier) \div 100
    IN  Max(10, raw_xp)

calculate_xp(d, time_ms, deaths, completed) ==
    LET base == base_xp(d)
        completion_bonus == IF completed THEN base ELSE 0
        time_secs == time_ms \div 1000
        time_bonus == IF completed /\ time_secs < 120
                      THEN (base * (120 - time_secs)) \div 120
                      ELSE 0
        death_penalty == Min(deaths * 10, 50)
        death_multiplier == 100 - death_penalty
        raw_xp == ((base + completion_bonus + time_bonus) * death_multiplier) \div 100
    IN  Max(10, raw_xp)

\* every value calculate_xp computes on the way, under the names of its
\* let bindings; time_left is 120 - time_secs, computed only under the guard
calculate_xp_steps(d, time_ms, deaths, completed) ==
    LET base == base_xp(d)
        completion_bonus == IF completed THEN base ELSE 0
        time_secs == time_ms \div 1000
        bonus_due == completed /\ time_secs < 120
        time_left == IF bonus_due THEN 120 - time_secs ELSE 0
        bonus_product == IF bonus_due THEN base * time_left ELSE 0
        time_bonus == IF bonus_due THEN bonus_product \div 120 ELSE 0
        deaths_times_10 == deaths * 10
        death_penalty == Min(deaths_times_10, 50)
        death_multiplier == 100 - death_penalty
        sum == base + completion_bonus + time_bonus
        product == sum * death_multiplier
    IN  [base |-> base,
         completion_bonus |-> completion_bonus,
         time_secs |-> time_secs,
         time_left |-> time_left,
         bonus_product |-> bonus_product,
         time_bonus |-> time_bonus,
         deaths_times_10 |-> deaths_times_10,
         death_penalty |-> death_penalty,
         death_multiplier |-> death_multiplier,
         sum |-> sum,
         product |-> product,
         raw_xp |-> product \div 100]

-----------------------------------------------------------------------------
(* Responses *)

Ok == [kind |-> "Ok"]
Error(msg) == [kind |-> "Error", message |-> msg]
PlayerRegistered(w) == [kind |-> "PlayerRegistered", wallet_address |-> w]
TournamentCreated(id, seed, end) ==
    [kind |-> "TournamentCreated", id |-> id, maze_seed |-> seed, end_time |-> end]
TournamentEnded(id, n) == [kind |-> "TournamentEnded", id |-> id, winner_count |-> n]
RewardClaimed(tid, xp) == [kind |-> "RewardClaimed", tournament_id |-> tid, xp_amount |-> xp]
TournamentBootstrapped(id, end, existed) ==
    [kind |-> "TournamentBootstrapped", id |-> id, end_time |-> end,
     already_existed |-> existed]

\* what a handler hands back: the store, the response, the messages sent
Outcome(st, resp, msgs) == [st |-> st, response |-> resp, messages |-> msgs]

-----------------------------------------------------------------------------
(* The store *)

Store ==
    [next_tournament_id |-> next_tournament_id,
     next_run_id |-> next_run_id,
     signer_to_wallet |-> signer_to_wallet,
     tournaments |-> tournaments,
     active_tournament_id |-> active_tournament_id,
     active_tournament |-> active_tournament,
     players |-> players,
     username_to_wallet |-> username_to_wallet,
     tournament_players |-> tournament_players,
     leaderboards |-> leaderboards,
     runs |-> runs,
     recent_runs |-> recent_runs,
     rewards |-> rewards]

Commit(st) ==
    /\ next_tournament_id' = st.next_tournament_id
    /\ next_run_id' = st.next_run_id
    /\ signer_to_wallet' = st.signer_to_wallet
    /\ tournaments' = st.tournaments
    /\ active_tournament_id' = st.active_tournament_id
    /\ active_tournament' = st.active_tournament
    /\ players' = st.players
    /\ username_to_wallet' = st.username_to_wallet
    /\ tournament_players' = st.tournament_players
    /\ leaderboards' = st.leaderboards
    /\ runs' = st.runs
    /\ recent_runs' = st.recent_runs
    /\ rewards' = st.rewards

NewPlayer(wallet, username, t) ==
    [wallet_address |-> wallet,
     username |-> username,
     total_xp |-> 0,
     total_runs |-> 0,
     tournaments_played |-> 0,
     tournaments_won |-> 0,
     best_time_ms |-> None,
     registered_at |-> t,
     last_active |-> t]

\* the tournament instantiate and bootstrap_tournament create
DefaultTournament(t) ==
    [id |-> 1,
     title |-> "Labyrinth Legends Championship",
     description |-> "15-day tournament - Navigate the maze faster than anyone else!",
     maze_seed |-> <<"labyrinth_legends_", t * SECS_PER_DAY>>,
     difficulty |-> "Medium",
     start_time |-> t,
     end_time |-> t + DURATION_DAYS,
     status |-> "Active",
     participant_count |-> 0,
     total_runs |-> 0,
     xp_reward_pool |-> DEFAULT_POOL,
     created_at |-> t]

\* the store before instantiate: every view holds its default
EmptyStore ==
    [next_tournament_id |-> 0,
     next_run_id |-> 0,
     signer_to_wallet |-> EmptyMap,
     tournaments |-> EmptyMap,
     active_tournament_id |-> None,
     active_tournament |-> None,
     players |-> EmptyMap,
     username_to_wallet |-> EmptyMap,
     tournament_players |-> EmptyMap,
     leaderboards |-> EmptyMap,
     runs |-> EmptyMap,
     recent_runs |-> <<>>,
     rewards |-> EmptyMap]

\* a bug: the tournament counter starts at the id of the default tournament
instantiate_counter_at_one(t) ==
    [EmptyStore EXCEPT
        !.next_tournament_id = 1,
        !.next_run_id = 1,
        !.tournaments = Put(EmptyMap, 1, DefaultTournament(t)),
        !.active_tournament_id = Some(1),
        !.active_tournament = Some(DefaultTournament(t)),
        !.leaderboards = Put(EmptyMap, 1, <<>>)]

\* Contract::instantiate at time t
instantiate(t) ==
    [next_tournament_id |-> 2,
     next_run_id |-> 1,
     signer_to_wallet |-> EmptyMap,
     tournaments |-> Put(EmptyMap, 1, DefaultTournament(t)),
     active_tournament_id |-> Some(1),
     active_tournament |-> Some(DefaultTournament(t)),
     players |-> EmptyMap,
     username_to_wallet |-> EmptyMap,
     tournament_players |-> EmptyMap,
     leaderboards |-> Put(EmptyMap, 1, <<>>),
     runs |-> EmptyMap,
     recent_runs |-> <<>>,
     rewards |-> EmptyMap]

-----------------------------------------------------------------------------
(* contract.rs: identity *)

get_wallet_for_signer(st, signer) ==
    IF signer \in DOMAIN st.signer_to_wallet
    THEN Some(st.signer_to_wallet[signer])
    ELSE None

\* returns <<the store, the player>>
get_or_create_player(st, signer, wallet, t) ==
    IF wallet \in DOMAIN st.players
    THEN <<[st EXCEPT !.signer_to_wallet = Put(@, signer, wallet)],
           st.players[wallet]>>
    ELSE LET username == DefaultUsername(wallet)
             player == NewPlayer(wallet, username, t)
         IN  <<[st EXCEPT !.players = Put(@, wallet, player),
                          !.username_to_wallet = Put(@, username, wallet),
                          !.signer_to_wallet = Put(@, signer, wallet)],
               player>>

\* a bug: the username is checked before the wallet is looked up
register_player_name_first(st, signer, wallet_address, username, t) ==
    IF username \in DOMAIN st.username_to_wallet
    THEN Outcome(st, Error("Username already taken"), <<>>)
    ELSE IF wallet_address \in DOMAIN st.players
    THEN Outcome([st EXCEPT !.signer_to_wallet = Put(@, signer, wallet_address)],
                 PlayerRegistered(wallet_address), <<>>)
    ELSE Outcome([st EXCEPT !.players = Put(@, wallet_address,
                                            NewPlayer(wallet_address, username, t)),
                            !.username_to_wallet = Put(@, username, wallet_address),
                            !.signer_to_wallet = Put(@, signer, wallet_address)],
                 PlayerRegistered(wallet_address), <<>>)

\* a bug: the signer is bound before the username is checked
register_player_binds_first(st, signer, wallet_address, username, t) ==
    LET st1 == [st EXCEPT !.signer_to_wallet = Put(@, signer, wallet_address)]
    IN  IF wallet_address \in DOMAIN st.players
        THEN Outcome(st1, PlayerRegistered(wallet_address), <<>>)
        ELSE IF username \in DOMAIN st.username_to_wallet
        THEN Outcome(st1, Error("Username already taken"), <<>>)
        ELSE Outcome([st1 EXCEPT !.players = Put(@, wallet_address,
                                                 NewPlayer(wallet_address, username, t)),
                                 !.username_to_wallet = Put(@, username, wallet_address)],
                     PlayerRegistered(wallet_address), <<>>)

register_player(st, signer, wallet_address, username, t) ==
    IF wallet_address \in DOMAIN st.players
    THEN Outcome([st EXCEPT !.signer_to_wallet = Put(@, signer, wallet_address)],
                 PlayerRegistered(wallet_address), <<>>)
    ELSE IF username \in DOMAIN st.username_to_wallet
    THEN Outcome(st, Error("Username already taken"), <<>>)
    ELSE Outcome([st EXCEPT !.players = Put(@, wallet_address,
                                            NewPlayer(wallet_address, username, t)),
                            !.username_to_wallet = Put(@, username, wallet_address),
                            !.signer_to_wallet = Put(@, signer, wallet_address)],
                 PlayerRegistered(wallet_address), <<>>)

ApplyRunMessage(wallet, username, tournament_id, run) ==
    [wallet_address |-> wallet,
     username |-> username,
     tournament_id |-> tournament_id,
     time_ms |-> run[1],
     score |-> run[2],
     coins |-> run[3],
     deaths |-> run[4],
     completed |-> run[5]]

\* a bug: an unbound signer is refused whatever its form
submit_run_no_autobind(st, signer, tournament_id, run, t) ==
    LET bound == get_wallet_for_signer(st, signer)
    IN  IF ~bound.some
        THEN Outcome(st, Error("Player not registered. Call registerPlayer first."), <<>>)
        ELSE LET got == get_or_create_player(st, signer, bound.val, t)
             IN  Outcome(got[1], Ok,
                         <<ApplyRunMessage(bound.val, got[2].username,
                                           tournament_id, run)>>)

\* run = <<time_ms, score, coins, deaths, completed>>
submit_run(st, signer, tournament_id, run, t) ==
    LET bound == get_wallet_for_signer(st, signer)
    IN  IF ~bound.some /\ signer[1] # "Address20"
        THEN Outcome(st, Error("Player not registered. Call registerPlayer first."), <<>>)
        ELSE LET wallet == IF bound.some THEN bound.val ELSE signer[2]
                 st1 == IF bound.some THEN st
                        ELSE [st EXCEPT !.signer_to_wallet = Put(@, signer, wallet)]
                 got == get_or_create_player(st1, signer, wallet, t)
                 username == got[2].username
             IN  Outcome(got[1], Ok,
                         <<ApplyRunMessage(wallet, username, tournament_id, run)>>)

-----------------------------------------------------------------------------
(* contract.rs: execute_message, Message::ApplyRun *)

\* a bug: the deadline is not checked
apply_run_valid_no_deadline(st, m, t) ==
    /\ st.active_tournament.some
    /\ st.active_tournament.val.id = m.tournament_id
    /\ st.active_tournament.val.status = "Active"

\* a bug: only the tournament id is checked
apply_run_valid_id_only(st, m, t) ==
    /\ st.active_tournament.some
    /\ st.active_tournament.val.id = m.tournament_id

\* the checks an ApplyRun message passes before anything is written
apply_run_valid(st, m, t) ==
    /\ st.active_tournament.some
    /\ st.active_tournament.val.id = m.tournament_id
    /\ st.active_tournament.val.status = "Active"
    /\ ~(t >= st.active_tournament.val.end_time)

\* a bug: the sort is not stable, an entry goes ahead of the entries that
\* are as fast as it is
InsertUnstable(sorted, e) ==
    LET k == Cardinality({i \in 1..Len(sorted) :
                             sorted[i].best_time_ms < e.best_time_ms})
    IN  SubSeq(sorted, 1, k) \o <<e>> \o SubSeq(sorted, k + 1, Len(sorted))

\* leaderboard.sort_by(best_time_ms) is a stable sort: an entry e that came
\* after the entries of sorted goes behind every entry that is not slower
InsertStable(sorted, e) ==
    LET k == Cardinality({i \in 1..Len(sorted) :
                             sorted[i].best_time_ms <= e.best_time_ms})
    IN  SubSeq(sorted, 1, k) \o <<e>> \o SubSeq(sorted, k + 1, Len(sorted))

\* the entries of acc (sorted) and s[lo..hi], stably sorted
RECURSIVE SortInto(_, _, _, _)
SortInto(acc, s, lo, hi) ==
    IF lo > hi THEN acc
    ELSE IF lo = hi THEN InsertStable(acc, s[lo])
    ELSE LET mid == (lo + hi) \div 2
         IN  CHOOSE all \in {SortInto(left, s, mid + 1, hi) :
                                left \in {SortInto(acc, s, lo, mid)}} : TRUE

sort_by_best_time(s) == SortInto(<<>>, s, 1, Len(s))

\* for (i, entry) in leaderboard.iter_mut().enumerate() { entry.rank = i + 1 }
update_ranks(s) == [i \in 1..Len(s) |-> [s[i] EXCEPT !.rank = i]]

\* a bug: the last n elements are kept
truncate_keeps_last(s, n) == IF Len(s) > n THEN SubSeq(s, Len(s) - n + 1, Len(s)) ELSE s

truncate(s, n) == IF Len(s) > n THEN SubSeq(s, 1, n) ELSE s

\* a bug: an entry is pushed whether or not the wallet has one
find_or_push_always_pushes(leaderboard, wallet, username, tp) ==
    Append(leaderboard,
           [rank |-> 0,
            wallet_address |-> wallet,
            username |-> username,
            best_time_ms |-> tp.best_time_ms,
            best_score |-> tp.best_score,
            total_runs |-> tp.total_runs,
            total_xp |-> tp.total_xp_earned])

\* step 9: find or push the entry of the wallet
find_or_push(leaderboard, wallet, username, tp) ==
    IF \E i \in 1..Len(leaderboard) : leaderboard[i].wallet_address = wallet
    THEN LET i == CHOOSE j \in 1..Len(leaderboard) :
                      /\ leaderboard[j].wallet_address = wallet
                      /\ \A k \in 1..(j - 1) : leaderboard[k].wallet_address # wallet
             entry == leaderboard[i]
         IN  [leaderboard EXCEPT ![i] =
                 [entry EXCEPT
                     !.best_time_ms = IF tp.best_time_ms < entry.best_time_ms
                                      THEN tp.best_time_ms ELSE @,
                     !.best_score = IF tp.best_score > entry.best_score
                                    THEN tp.best_score ELSE @,
                     !.total_runs = tp.total_runs,
                     !.total_xp = tp.total_xp_earned]]
    ELSE Append(leaderboard,
                [rank |-> 0,
                 wallet_address |-> wallet,
                 username |-> username,
                 best_time_ms |-> tp.best_time_ms,
                 best_score |-> tp.best_score,
                 total_runs |-> tp.total_runs,
                 total_xp |-> tp.total_xp_earned])

\* a bug: the ranks are written before the entries are sorted
update_leaderboard_ranked_unsorted(leaderboard, wallet, username, tp) ==
    truncate(sort_by_best_time(update_ranks(
        find_or_push(leaderboard, wallet, username, tp))), LEADERBOARD_CAP)

\* steps 9: find or push, sort, rank, truncate
update_leaderboard(leaderboard, wallet, username, tp) ==
    truncate(update_ranks(sort_by_best_time(
        find_or_push(leaderboard, wallet, username, tp))), LEADERBOARD_CAP)

\* a bug: the time of the last completed run is taken as the best time
update_tournament_player_last_time(st, key, m, xp_earned, t) ==
    LET tp == IF key \in DOMAIN st.tournament_players
              THEN st.tournament_players[key]
              ELSE [wallet_address |-> m.wallet_address,
                    username |-> m.username,
                    best_time_ms |-> U64_MAX,
                    best_score |-> 0,
                    total_runs |-> 0,
                    total_xp_earned |-> 0,
                    last_run_at |-> t,
                    joined_at |-> t]
    IN  [tp EXCEPT
            !.best_time_ms = IF m.completed THEN m.time_ms ELSE @,
            !.best_score = IF m.score > tp.best_score THEN m.score ELSE @,
            !.total_runs = @ + 1,
            !.total_xp_earned = @ + xp_earned,
            !.last_run_at = t]

\* steps 7: the TournamentPlayer row after the run
update_tournament_player(st, key, m, xp_earned, t) ==
    LET tp == IF key \in DOMAIN st.tournament_players
              THEN st.tournament_players[key]
              ELSE [wallet_address |-> m.wallet_address,
                    username |-> m.username,
                    best_time_ms |-> U64_MAX,
                    best_score |-> 0,
                    total_runs |-> 0,
                    total_xp_earned |-> 0,
                    last_run_at |-> t,
                    joined_at |-> t]
    IN  [tp EXCEPT
            !.best_time_ms = IF m.completed /\ m.time_ms < tp.best_time_ms
                             THEN m.time_ms ELSE @,
            !.best_score = IF m.score > tp.best_score THEN m.score ELSE @,
            !.total_runs = @ + 1,
            !.total_xp_earned = @ + xp_earned,
            !.last_run_at = t]

\* step 8: the Player row after the run
update_player(st, m, is_new_participant, xp_earned, t) ==
    LET player == IF m.wallet_address \in DOMAIN st.players
                  THEN st.players[m.wallet_address]
                  ELSE NewPlayer(m.wallet_address, m.username, t)
    IN  [player EXCEPT
            !.total_xp = @ + xp_earned,
            !.total_runs = @ + 1,
            !.last_active = t,
            !.tournaments_played = IF is_new_participant THEN @ + 1 ELSE @,
            !.best_time_ms = IF m.completed
                             THEN IF player.best_time_ms.some
                                  THEN IF m.time_ms < player.best_time_ms.val
                                       THEN Some(m.time_ms) ELSE @
                                  ELSE Some(m.time_ms)
                             ELSE @]

\* a bug: every run counts as a new participant
count_run_as_participant(tournament, is_new_participant) ==
    [tournament EXCEPT !.participant_count = @ + 1, !.total_runs = @ + 1]

\* a bug: only a new participant's run is counted
count_run_of_new_only(tournament, is_new_participant) ==
    [tournament EXCEPT
        !.participant_count = IF is_new_participant THEN @ + 1 ELSE @,
        !.total_runs = IF is_new_participant THEN @ + 1 ELSE @]

\* step 3: the counts of the tournament (on the clone of the register)
count_run(tournament, is_new_participant) ==
    [tournament EXCEPT
        !.participant_count = IF is_new_participant THEN @ + 1 ELSE @,
        !.total_runs = @ + 1]

\* steps 2-10 of a valid ApplyRun
apply_run(st, m, t) ==
    LET tournament_id == m.tournament_id
        key == <<tournament_id, m.wallet_address>>
        is_new_participant == key \notin DOMAIN st.tournament_players
        tournament == count_run(st.active_tournament.val, is_new_participant)
        xp_earned == calculate_xp(tournament.difficulty, m.time_ms, m.deaths, m.completed)
        run_id == st.next_run_id
        run == [id |-> run_id,
                tournament_id |-> tournament_id,
                wallet_address |-> m.wallet_address,
                username |-> m.username,
                time_ms |-> m.time_ms,
                score |-> m.score,
                coins |-> m.coins,
                deaths |-> m.deaths,
                completed |-> m.completed,
                xp_earned |-> xp_earned,
                created_at |-> t]
        tp == update_tournament_player(st, key, m, xp_earned, t)
        player == update_player(st, m, is_new_participant, xp_earned, t)
        leaderboard == IF tournament_id \in DOMAIN st.leaderboards
                       THEN st.leaderboards[tournament_id] ELSE <<>>
    IN  [st EXCEPT
            !.next_run_id = run_id + 1,
            !.runs = Put(@, run_id, run),
            !.recent_runs = truncate(<<run_id>> \o @, RECENT_CAP),
            !.tournament_players = Put(@, key, tp),
            !.players = Put(@, m.wallet_address, player),
            !.leaderboards = Put(@, tournament_id,
                                 update_leaderboard(leaderboard, m.wallet_address,
                                                    m.username, tp)),
            !.active_tournament = Some(tournament),
            !.tournaments = Put(@, tournament_id, tournament)]

\* a bug: a message that fails validation still takes a run id
execute_message_burns_id(st, m, t) ==
    IF apply_run_valid(st, m, t) THEN apply_run(st, m, t)
    ELSE [st EXCEPT !.next_run_id = @ + 1]

execute_message(st, m, t) ==
    IF apply_run_valid(st, m, t) THEN apply_run(st, m, t) ELSE st

-----------------------------------------------------------------------------
(* contract.rs: tournaments *)

\* a bug: the id counter is not advanced
create_tournament_keeps_counter(st, input, t) ==
    LET id == st.next_tournament_id
        tournament == [id |-> id,
                       title |-> "title",
                       description |-> "description",
                       maze_seed |-> <<"seed", 0>>,
                       difficulty |-> input[1],
                       start_time |-> t,
                       end_time |-> t + input[2],
                       status |-> "Active",
                       participant_count |-> 0,
                       total_runs |-> 0,
                       xp_reward_pool |-> input[3],
                       created_at |-> t]
    IN  Outcome([st EXCEPT !.tournaments = Put(@, id, tournament),
                           !.leaderboards = Put(@, id, <<>>),
                           !.active_tournament_id = Some(id)],
                TournamentCreated(id, <<"seed", 0>>, t + input[2]), <<>>)

\* input = <<difficulty, duration_days, xp_reward_pool>>
create_tournament(st, input, t) ==
    LET duration_micros == input[2]
        end_time == t + duration_micros
        id == st.next_tournament_id
        maze_seed == <<"seed", 0>>
        tournament == [id |-> id,
                       title |-> "title",
                       description |-> "description",
                       maze_seed |-> maze_seed,
                       difficulty |-> input[1],
                       start_time |-> t,
                       end_time |-> end_time,
                       status |-> "Active",
                       participant_count |-> 0,
                       total_runs |-> 0,
                       xp_reward_pool |-> input[3],
                       created_at |-> t]
    IN  Outcome([st EXCEPT !.next_tournament_id = id + 1,
                           !.tournaments = Put(@, id, tournament),
                           !.leaderboards = Put(@, id, <<>>),
                           !.active_tournament_id = Some(id)],
                TournamentCreated(id, maze_seed, end_time), <<>>)

\* leaderboard.iter().take(5)
winners(leaderboard) == Min(Len(leaderboard), MAX_WINNERS)

\* a bug: the pool is split evenly
reward_amount_even(pool, i) == pool \div MAX_WINNERS

\* (tournament.xp_reward_pool * reward_percentages[i]) / 100
reward_amount(pool, i) == (pool * reward_percentages[i]) \div 100

\* a bug: every rewarded wallet is counted as a winner
RECURSIVE distribute_rewards_all_win(_, _, _, _)
distribute_rewards_all_win(st, tournament, leaderboard, i) ==
    IF i > winners(leaderboard) THEN st
    ELSE LET entry == leaderboard[i]
             reward == [tournament_id |-> tournament.id,
                        wallet_address |-> entry.wallet_address,
                        rank |-> entry.rank,
                        xp_amount |-> reward_amount(tournament.xp_reward_pool, i),
                        claimed |-> FALSE]
             st1 == [st EXCEPT !.rewards =
                        Put(@, <<tournament.id, entry.wallet_address>>, reward)]
             st2 == IF entry.wallet_address \in DOMAIN st1.players
                    THEN [st1 EXCEPT
                             !.players[entry.wallet_address].tournaments_won = @ + 1]
                    ELSE st1
         IN  distribute_rewards_all_win(st2, tournament, leaderboard, i + 1)

\* the reward loop of end_tournament from entry i on
RECURSIVE distribute_rewards(_, _, _, _)
distribute_rewards(st, tournament, leaderboard, i) ==
    IF i > winners(leaderboard) THEN st
    ELSE LET entry == leaderboard[i]
             reward == [tournament_id |-> tournament.id,
                        wallet_address |-> entry.wallet_address,
                        rank |-> entry.rank,
                        xp_amount |-> reward_amount(tournament.xp_reward_pool, i),
                        claimed |-> FALSE]
             st1 == [st EXCEPT !.rewards =
                        Put(@, <<tournament.id, entry.wallet_address>>, reward)]
             st2 == IF i = 1 /\ entry.wallet_address \in DOMAIN st1.players
                    THEN [st1 EXCEPT
                             !.players[entry.wallet_address].tournaments_won = @ + 1]
                    ELSE st1
         IN  distribute_rewards(st2, tournament, leaderboard, i + 1)

\* a bug: a tournament can be ended before its end_time
end_tournament_error_no_deadline(st, tournament_id, t) ==
    IF tournament_id \notin DOMAIN st.tournaments
    THEN Some(Error("Tournament not found"))
    ELSE IF st.tournaments[tournament_id].status = "Ended"
    THEN Some(Error("Tournament already ended"))
    ELSE None

\* the checks of end_tournament: the error it returns, or None
end_tournament_error(st, tournament_id, t) ==
    IF tournament_id \notin DOMAIN st.tournaments
    THEN Some(Error("Tournament not found"))
    ELSE IF st.tournaments[tournament_id].status = "Ended"
    THEN Some(Error("Tournament already ended"))
    ELSE IF t < st.tournaments[tournament_id].end_time
    THEN Some(Error(<<"Tournament cannot be finalized yet. Ends at timestamp ",
                      st.tournaments[tournament_id].end_time>>))
    ELSE None

\* a bug: the rewards are distributed and the status is left Active
end_tournament_keeps_active(st, tournament_id, t) ==
    LET err == end_tournament_error(st, tournament_id, t)
    IN  IF err.some THEN Outcome(st, err.val, <<>>)
        ELSE LET tournament == st.tournaments[tournament_id]
                 leaderboard == st.leaderboards[tournament_id]
             IN  Outcome(distribute_rewards(st, tournament, leaderboard, 1),
                         TournamentEnded(tournament_id, winners(leaderboard)), <<>>)

end_tournament(st, tournament_id, t) ==
    LET err == end_tournament_error(st, tournament_id, t)
    IN  IF err.some THEN Outcome(st, err.val, <<>>)
        ELSE LET tournament == [st.tournaments[tournament_id] EXCEPT !.status = "Ended"]
                 st1 == [st EXCEPT
                            !.tournaments = Put(@, tournament_id, tournament),
                            !.active_tournament_id =
                                IF @ = Some(tournament_id) THEN None ELSE @]
                 leaderboard == IF tournament_id \in DOMAIN st1.leaderboards
                                THEN st1.leaderboards[tournament_id] ELSE <<>>
             IN  Outcome(distribute_rewards(st1, tournament, leaderboard, 1),
                         TournamentEnded(tournament_id, winners(leaderboard)), <<>>)

\* a bug: a claim also counts as a tournament won
claim_reward_counts_win(st, signer, tournament_id) ==
    LET bound == get_wallet_for_signer(st, signer)
        key == <<tournament_id, bound.val>>
    IN  IF ~bound.some THEN Outcome(st, Error("Player not registered"), <<>>)
        ELSE IF key \notin DOMAIN st.rewards
        THEN Outcome(st, Error("No reward found for this tournament"), <<>>)
        ELSE IF st.rewards[key].claimed
        THEN Outcome(st, Error("Reward already claimed"), <<>>)
        ELSE LET reward == [st.rewards[key] EXCEPT !.claimed = TRUE]
                 st1 == [st EXCEPT !.rewards = Put(@, key, reward)]
                 st2 == IF bound.val \in DOMAIN st1.players
                        THEN [st1 EXCEPT
                                 !.players[bound.val].total_xp = @ + reward.xp_amount,
                                 !.players[bound.val].tournaments_won = @ + 1]
                        ELSE st1
             IN  Outcome(st2, RewardClaimed(tournament_id, reward.xp_amount), <<>>)

\* a bug: a claimed reward can be claimed again
claim_reward_repeatable(st, signer, tournament_id) ==
    LET bound == get_wallet_for_signer(st, signer)
        key == <<tournament_id, bound.val>>
    IN  IF ~bound.some THEN Outcome(st, Error("Player not registered"), <<>>)
        ELSE IF key \notin DOMAIN st.rewards
        THEN Outcome(st, Error("No reward found for this tournament"), <<>>)
        ELSE LET reward == [st.rewards[key] EXCEPT !.claimed = TRUE]
                 st1 == [st EXCEPT !.rewards = Put(@, key, reward)]
                 st2 == IF bound.val \in DOMAIN st1.players
                        THEN [st1 EXCEPT
                                 !.players[bound.val].total_xp = @ + reward.xp_amount]
                        ELSE st1
             IN  Outcome(st2, RewardClaimed(tournament_id, reward.xp_amount), <<>>)

\* a bug: the reward is marked claimed and the player is credited nothing
claim_reward_without_credit(st, signer, tournament_id) ==
    LET bound == get_wallet_for_signer(st, signer)
        key == <<tournament_id, bound.val>>
    IN  IF ~bound.some THEN Outcome(st, Error("Player not registered"), <<>>)
        ELSE IF key \notin DOMAIN st.rewards
        THEN Outcome(st, Error("No reward found for this tournament"), <<>>)
        ELSE IF st.rewards[key].claimed
        THEN Outcome(st, Error("Reward already claimed"), <<>>)
        ELSE LET reward == [st.rewards[key] EXCEPT !.claimed = TRUE]
             IN  Outcome([st EXCEPT !.rewards = Put(@, key, reward)],
                         RewardClaimed(tournament_id, reward.xp_amount), <<>>)

claim_reward(st, signer, tournament_id) ==
    LET bound == get_wallet_for_signer(st, signer)
        key == <<tournament_id, bound.val>>
    IN  IF ~bound.some THEN Outcome(st, Error("Player not registered"), <<>>)
        ELSE IF key \notin DOMAIN st.rewards
        THEN Outcome(st, Error("No reward found for this tournament"), <<>>)
        ELSE IF st.rewards[key].claimed
        THEN Outcome(st, Error("Reward already claimed"), <<>>)
        ELSE LET reward == [st.rewards[key] EXCEPT !.claimed = TRUE]
                 st1 == [st EXCEPT !.rewards = Put(@, key, reward)]
                 st2 == IF bound.val \in DOMAIN st1.players
                        THEN [st1 EXCEPT
                                 !.players[bound.val].total_xp = @ + reward.xp_amount]
                        ELSE st1
             IN  Outcome(st2, RewardClaimed(tournament_id, reward.xp_amount), <<>>)

\* a bug: tournament 1 is created anew whether it exists or not
bootstrap_tournament_recreates(st, t) ==
    LET tournament == DefaultTournament(t)
    IN  Outcome([st EXCEPT
                    !.tournaments = Put(@, 1, tournament),
                    !.active_tournament = Some(tournament),
                    !.leaderboards = Put(@, 1, <<>>),
                    !.active_tournament_id = Some(1),
                    !.next_tournament_id = IF @ < 2 THEN 2 ELSE @,
                    !.next_run_id = IF @ < 1 THEN 1 ELSE @],
                TournamentBootstrapped(1, tournament.end_time, FALSE), <<>>)

bootstrap_tournament(st, t) ==
    IF 1 \in DOMAIN st.tournaments
    THEN LET existing == st.tournaments[1]
         IN  Outcome([st EXCEPT !.active_tournament = Some(existing),
                                !.active_tournament_id = Some(1)],
                     TournamentBootstrapped(1, existing.end_time, TRUE), <<>>)
    ELSE LET tournament == DefaultTournament(t)
         IN  Outcome([st EXCEPT
                         !.tournaments = Put(@, 1, tournament),
                         !.active_tournament = Some(tournament),
                         !.leaderboards = Put(@, 1, <<>>),
                         !.active_tournament_id = Some(1),
                         !.next_tournament_id = IF @ < 2 THEN 2 ELSE @,
                         !.next_run_id = IF @ < 1 THEN 1 ELSE @],
                     TournamentBootstrapped(1, tournament.end_time, FALSE), <<>>)

-----------------------------------------------------------------------------
(* service.rs: queries *)

\* the tournament of fixed values the service makes up
get_default_tournament ==
    [id |-> 1,
     title |-> "February 2026 Championship",
     description |-> "15-day tournament - fastest time wins!",
     maze_seed |-> <<"labyrinth-feb-2026", 0>>,
     difficulty |-> "Medium",
     start_time |-> START_TIME,
     end_time |-> START_TIME + DURATION_DAYS,
     status |-> "Active",
     participant_count |-> 0,
     total_runs |-> 0,
     xp_reward_pool |-> DEFAULT_POOL,
     created_at |-> START_TIME]

\* QueryRoot::active_tournament: what the query returns on the store st
query_active_tournament(st) ==
    IF /\ st.active_tournament_id.some
       /\ st.active_tournament_id.val \in DOMAIN st.tournaments
    THEN Some(st.tournaments[st.active_tournament_id.val])
    ELSE Some(get_default_tournament)

-----------------------------------------------------------------------------
(* The machine *)

\* the times the contract is instantiated at
StartTimes == {0}

Init ==
    /\ now \in StartTimes
    /\ next_tournament_id = instantiate(now).next_tournament_id
    /\ next_run_id = instantiate(now).next_run_id
    /\ signer_to_wallet = instantiate(now).signer_to_wallet
    /\ tournaments = instantiate(now).tournaments
    /\ active_tournament_id = instantiate(now).active_tournament_id
    /\ active_tournament = instantiate(now).active_tournament
    /\ players = instantiate(now).players
    /\ username_to_wallet = instantiate(now).username_to_wallet
    /\ tournament_players = instantiate(now).tournament_players
    /\ leaderboards = instantiate(now).leaderboards
    /\ runs = instantiate(now).runs
    /\ recent_runs = instantiate(now).recent_runs
    /\ rewards = instantiate(now).rewards
    /\ inbox = <<>>
    /\ xp_call = None

\* execute_operation: the handler's writes and the messages it sends
\* (its response is out.response)
Execute(out) ==
    /\ Commit(out.st)
    /\ inbox' = inbox \o out.messages
    /\ now' = now
    /\ xp_call' = xp_call

\* authenticated_signer() is None: rejected before the operation is looked at
not_authenticated(st) == Outcome(st, Error("Not authenticated"), <<>>)

NotAuthenticated ==
    /\ inbox' = inbox
    /\ Execute(not_authenticated(Store))

\* the runs recorded for the wallets the operations are called with
ActorRuns == {id \in DOMAIN runs : runs[id].wallet_address \in Wallets}

RegisterPlayer(signer, wallet_address, username) ==
    /\ <<signer, wallet_address, username>> \in RegisterInputs
    /\ Execute(register_player(Store, signer, wallet_address, username, now))

SubmitRun(signer, tournament_id, run) ==
    /\ Len(inbox) < MaxInbox
    /\ Cardinality(ActorRuns) + Len(inbox) < MaxRuns
    /\ <<tournament_id, run>> \in SubmitInputs
    /\ Execute(submit_run(Store, signer, tournament_id, run, now))

CreateTournament(input) ==
    /\ next_tournament_id <= MaxTournamentId
    /\ Execute(create_tournament(Store, input, now))

EndTournament(signer, tournament_id) ==
    /\ tournament_id \in TournamentIdInputs
    /\ Execute(end_tournament(Store, tournament_id, now))

ClaimReward(signer, tournament_id) ==
    /\ tournament_id \in TournamentIdInputs
    /\ Execute(claim_reward(Store, signer, tournament_id))

BootstrapTournament ==
    /\ inbox' = inbox
    /\ Execute(bootstrap_tournament(Store, now))

\* execute_message on the oldest message in flight
ApplyRun ==
    /\ inbox # <<>>
    /\ Commit(execute_message(Store, Head(inbox), now))
    /\ inbox' = Tail(inbox)
    /\ UNCHANGED <<now, xp_call>>

\* the clock moves forward
Tick ==
    /\ \E t \in Times : t > now /\ now' = t
    /\ UNCHANGED <<store_vars, inbox, xp_call>>

Next ==
    \/ NotAuthenticated
    \/ \E s \in Signers, w \in Wallets, u \in Usernames : RegisterPlayer(s, w, u)
    \/ \E s \in Signers, tid \in TournamentIdInputs, run \in RunInputs :
           SubmitRun(s, tid, run)
    \/ \E input \in CreateInputs : CreateTournament(input)
    \/ \E s \in Signers, tid \in TournamentIdInputs : EndTournament(s, tid)
    \/ \E s \in Signers, tid \in TournamentIdInputs : ClaimReward(s, tid)
    \/ BootstrapTournament
    \/ ApplyRun
    \/ Tick

Spec == Init /\ [][Next]_vars

-----------------------------------------------------------------------------
(* The machine started on a tournament that already has players: the store *)
(* after n other wallets have each had one completed run applied.          *)

CrowdWallet(i) == <<100 + i, 1>>

\* slower than RunFast, faster than RunSlow
RunCrowd == <<65000, 15, 0, 0, TRUE>>

\* SubmitRun of wallet i and its ApplyRun, at time t
CrowdStep(st, i, t) ==
    LET sent == submit_run(st, Address20(CrowdWallet(i)), 1, RunCrowd, t)
    IN  execute_message(sent.st, sent.messages[1], t)

\* CrowdStep for the wallets lo..hi in turn
RECURSIVE CrowdFrom(_, _, _, _)
CrowdFrom(st, lo, hi, t) ==
    IF lo > hi THEN st
    ELSE IF lo = hi THEN CrowdStep(st, lo, t)
    ELSE LET mid == (lo + hi) \div 2
         IN  CHOOSE all \in {CrowdFrom(left, mid + 1, hi, t) :
                                left \in {CrowdFrom(st, lo, mid, t)}} : TRUE

\* the store after instantiate and the runs of the wallets 1..n
Crowd(n, t) == CrowdFrom(instantiate(t), 1, n, t)

\* two short of the number of winners, one short of a full leaderboard
CrowdSizes == {MAX_WINNERS - 2, LEADERBOARD_CAP - 1}

InitFull ==
    /\ now \in StartTimes
    /\ inbox = <<>>
    /\ xp_call = None
    /\ \E n \in CrowdSizes :
           LET st == Crowd(n, now)
           IN  /\ next_tournament_id = st.next_tournament_id
               /\ next_run_id = st.next_run_id
               /\ signer_to_wallet = st.signer_to_wallet
               /\ tournaments = st.tournaments
               /\ active_tournament_id = st.active_tournament_id
               /\ active_tournament = st.active_tournament
               /\ players = st.players
               /\ username_to_wallet = st.username_to_wallet
               /\ tournament_players = st.tournament_players
               /\ leaderboards = st.leaderboards
               /\ runs = st.runs
               /\ recent_runs = st.recent_runs
               /\ rewards = st.rewards

NextFull ==
    \/ RegisterPlayer(SignerX, WalletB, Alice)
    \/ \E s \in Signers, run \in RunInputs : SubmitRun(s, 1, run)
    \/ \E input \in CreateInputs : CreateTournament(input)
    \/ \E s \in Signers, tid \in TournamentIdInputs : EndTournament(s, tid)
    \/ \E s \in Signers, tid \in TournamentIdInputs : ClaimReward(s, tid)
    \/ ApplyRun
    \/ Tick

SpecFull == InitFull /\ [][NextFull]_vars

-----------------------------------------------------------------------------
(* The populated tournament with runs that tie: the two wallets submit up   *)
(* to MaxTieRuns runs that are slower than, as fast as or faster than the   *)
(* crowd's.                                                                 *)

TieRunInputs == {RunSlow, RunCrowd, RunFast}

SubmitTieRun(signer, run) ==
    /\ Len(inbox) < MaxInbox
    /\ Cardinality(ActorRuns) + Len(inbox) < MaxTieRuns
    /\ run \in TieRunInputs
    /\ Execute(submit_run(Store, signer, 1, run, now))

NextTies ==
    \/ RegisterPlayer(SignerX, WalletB, Alice)
    \/ \E s \in Signers, run \in TieRunInputs : SubmitTieRun(s, run)
    \/ ApplyRun

SpecTies == InitFull /\ [][NextTies]_vars

-----------------------------------------------------------------------------
(* calculate_xp on its own: a call with arguments of XpCalls, and its return *)

InitXp ==
    /\ now \in StartTimes
    /\ next_tournament_id = instantiate(now).next_tournament_id
    /\ next_run_id = instantiate(now).next_run_id
    /\ signer_to_wallet = instantiate(now).signer_to_wallet
    /\ tournaments = instantiate(now).tournaments
    /\ active_tournament_id = instantiate(now).active_tournament_id
    /\ active_tournament = instantiate(now).active_tournament
    /\ players = instantiate(now).players
    /\ username_to_wallet = instantiate(now).username_to_wallet
    /\ tournament_players = instantiate(now).tournament_players
    /\ leaderboards = instantiate(now).leaderboards
    /\ runs = instantiate(now).runs
    /\ recent_runs = instantiate(now).recent_runs
    /\ rewards = instantiate(now).rewards
    /\ inbox = <<>>
    /\ xp_call \in XpCalls

CalculateXp ==
    /\ xp_call.result = None
    /\ xp_call' = [xp_call EXCEPT !.result =
                       Some(calculate_xp(xp_call.difficulty, xp_call.time_ms,
                                         xp_call.deaths, xp_call.completed))]
    /\ UNCHANGED <<store_vars, inbox, now>>

NextXp == CalculateXp

SpecXp == InitXp /\ [][NextXp]_vars

-----------------------------------------------------------------------------
(* Properties *)

ParticipantsOf(tid) == {k \in DOMAIN tournament_players : k[1] = tid}
RunsOf(tid) == {id \in DOMAIN runs : runs[id].tournament_id = tid}

\* C1: every tournament of the tournaments map has a participant_count equal
\* to the number of wallets that have a TournamentPlayer row for its id.
C1_ParticipantCount ==
    \A tid \in DOMAIN tournaments :
        tournaments[tid].participant_count = Cardinality(ParticipantsOf(tid))

\* a wallet has submitted twice to a tournament and is counted once
C1_Witness ==
    \E tid \in DOMAIN tournaments :
        /\ Cardinality(ParticipantsOf(tid)) = 1
        /\ Cardinality(RunsOf(tid)) = 2

\* C2: every tournament of the tournaments map has a total_runs equal to the
\* number of GameRun rows that carry its id.
C2_TotalRuns ==
    \A tid \in DOMAIN tournaments :
        tournaments[tid].total_runs = Cardinality(RunsOf(tid))

\* two tournaments exist, one with two runs of one wallet and one with none
C2_Witness ==
    \E t1, t2 \in DOMAIN tournaments :
        /\ Cardinality(RunsOf(t1)) = 2
        /\ Cardinality(ParticipantsOf(t1)) = 1
        /\ Cardinality(RunsOf(t2)) = 0
        /\ inbox = <<>>

\* C3: every leaderboard has at most LEADERBOARD_CAP entries, is ordered by
\* best_time_ms ascending, and the entry at position i has rank i.
C3_LeaderboardOrdered ==
    \A tid \in DOMAIN leaderboards :
        LET lb == leaderboards[tid]
        IN  /\ Len(lb) <= LEADERBOARD_CAP
            /\ \A i \in 1..Len(lb) : lb[i].rank = i
            /\ \A i \in 1..(Len(lb) - 1) :
                   lb[i].best_time_ms <= lb[i + 1].best_time_ms

\* a full leaderboard whose slowest entry has been pushed out by a wallet
\* that now leads it, with a later entrant behind it
C3_Witness ==
    \E tid \in DOMAIN leaderboards :
        LET lb == leaderboards[tid]
        IN  /\ Len(lb) = LEADERBOARD_CAP
            /\ Cardinality(ParticipantsOf(tid)) > LEADERBOARD_CAP
            /\ lb[1].wallet_address \in Wallets
            /\ \E i \in 2..Len(lb) : lb[i].wallet_address \in Wallets

\* the sum of f[x] over the x of S
RECURSIVE SumOver(_, _)
SumOver(f, S) ==
    IF S = {} THEN 0
    ELSE LET x == CHOOSE y \in S : TRUE
         IN  f[x] + SumOver(f, S \ {x})

\* the XP of the runs recorded for wallet w
RunXpOf(w) ==
    SumOver([id \in DOMAIN runs |-> runs[id].xp_earned],
            {id \in DOMAIN runs : runs[id].wallet_address = w})

\* the XP of the rewards of wallet w, all of them or the claimed ones
RewardXpOf(w, claimed_only) ==
    SumOver([k \in DOMAIN rewards |-> rewards[k].xp_amount],
            {k \in DOMAIN rewards :
                /\ rewards[k].wallet_address = w
                /\ claimed_only => rewards[k].claimed})

C5_UsernamesUnique ==
    /\ \A w1, w2 \in DOMAIN players :
           players[w1].username = players[w2].username => w1 = w2
    /\ \A u \in DOMAIN username_to_wallet :
           /\ username_to_wallet[u] \in DOMAIN players
           /\ players[username_to_wallet[u]].username = u
    /\ \A w \in DOMAIN players :
           /\ players[w].username \in DOMAIN username_to_wallet
           /\ username_to_wallet[players[w].username] = w

\* C6: a tournament enters the map Active, an Ended tournament stays Ended,
\* and a tournament becomes Ended only by an EndTournament that succeeds.
C6_StatusMonotone ==
    [][/\ DOMAIN tournaments \subseteq DOMAIN tournaments'
       /\ \A tid \in DOMAIN tournaments' :
              IF tid \notin DOMAIN tournaments
              THEN tournaments'[tid].status = "Active"
              ELSE /\ tournaments[tid].status = "Ended"
                          => tournaments'[tid].status = "Ended"
                   /\ (/\ tournaments[tid].status = "Active"
                       /\ tournaments'[tid].status = "Ended")
                          => /\ ~end_tournament_error(Store, tid, now).some
                             /\ Store' = end_tournament(Store, tid, now).st]_vars

\* a tournament has Ended while the register still holds its Active copy and
\* an ApplyRun for it is waiting to be executed
C6_Witness ==
    /\ inbox # <<>>
    /\ active_tournament.some
    /\ active_tournament.val.status = "Active"
    /\ Head(inbox).tournament_id = active_tournament.val.id
    /\ tournaments[active_tournament.val.id].status = "Ended"

\* tournament tid exists, is Active and its end_time has not been reached
TournamentOpen(tid) ==
    /\ tid \in DOMAIN tournaments
    /\ tournaments[tid].status = "Active"
    /\ now < tournaments[tid].end_time

\* the signer is bound to a wallet or carries one
SignerResolves(signer) ==
    signer \in DOMAIN signer_to_wallet \/ signer[1] = "Address20"

WalletOf(signer) ==
    IF signer \in DOMAIN signer_to_wallet THEN signer_to_wallet[signer]
    ELSE signer[2]

\* the best time of wallet w in tournament tid before a run (u64::MAX if none)
PreviousBest(tid, w) ==
    IF <<tid, w>> \in DOMAIN tournament_players
    THEN tournament_players[<<tid, w>>].best_time_ms
    ELSE U64_MAX

\* the rank of wallet w in leaderboard lb, 0 if it is not there
RankOf(lb, w) ==
    IF \E i \in 1..Len(lb) : lb[i].wallet_address = w
    THEN lb[CHOOSE i \in 1..Len(lb) : lb[i].wallet_address = w].rank
    ELSE 0

\* C7 as stated: a SubmitRun whose preconditions hold returns RunSubmitted
\* and, in the store it leaves, the run exists, the tournament's total_runs
\* includes it, new_best and rank describe the submitter's new standing.
C7_SubmitRunAtomic ==
    \A s \in Signers, in \in SubmitInputs :
        (SignerResolves(s) /\ TournamentOpen(in[1])) =>
            LET tid == in[1]
                run == in[2]
                out == submit_run(Store, s, tid, run, now)
            IN  /\ out.response.kind = "RunSubmitted"
                /\ out.response.run_id \in DOMAIN out.st.runs
                /\ out.st.runs[out.response.run_id].tournament_id = tid
                /\ out.st.tournaments[tid].total_runs
                       = tournaments[tid].total_runs + 1
                /\ <<tid, WalletOf(s)>> \in DOMAIN out.st.tournament_players
                /\ out.response.new_best
                       = (run[5] /\ run[1] < PreviousBest(tid, WalletOf(s)))
                /\ out.response.rank
                       = RankOf(out.st.leaderboards[tid], WalletOf(s))

\* C8 as stated: a SubmitRun for a tournament that does not exist, is not
\* Active or has reached its end_time returns an error, leaves the store as it
\* was, and whatever message it sends changes nothing.
C8_SubmitRunRejected ==
    \A s \in Signers, in \in SubmitInputs :
        ~TournamentOpen(in[1]) =>
            LET out == submit_run(Store, s, in[1], in[2], now)
            IN  /\ out.response.kind = "Error"
                /\ out.st = Store
                /\ \A i \in 1..Len(out.messages) :
                       execute_message(out.st, out.messages[i], now) = out.st

\* C9 as stated: a SubmitRun for any tournament that exists, is Active and has
\* not reached its end_time is applied: once its message is executed the
\* tournament's total_runs is one more, a GameRun with its id is new, and its
\* leaderboard contains the submitter.
C9_SubmitRunAccepted ==
    \A s \in Signers, in \in SubmitInputs :
        (inbox = <<>> /\ SignerResolves(s) /\ TournamentOpen(in[1])) =>
            LET tid == in[1]
                out == submit_run(Store, s, tid, in[2], now)
                after == execute_message(out.st, out.messages[1], now)
            IN  /\ out.messages # <<>>
                /\ after.tournaments[tid].total_runs
                       = tournaments[tid].total_runs + 1
                /\ \E id \in DOMAIN after.runs \ DOMAIN runs :
                       after.runs[id].tournament_id = tid
                /\ RankOf(after.leaderboards[tid], WalletOf(s)) > 0

RewardsOf(r, tid) == {k \in DOMAIN r : k[1] = tid}

\* C11: a successful EndTournament(tid) gives exactly the entries at ranks
\* 1..min(MAX_WINNERS, N) an unclaimed reward of floor(pool * pct / 100), pct
\* from 40, 25, 15, 12, 8 in rank order, and touches no other reward; a
\* tournament never has more than MAX_WINNERS rewards, and they never add up
\* to more than its pool. Three entries and a pool of 10000 give 4000, 2500
\* and 1500.
C11_RewardDistribution ==
    /\ \A tid \in TournamentIdInputs :
           LET out == end_tournament(Store, tid, now)
               lb == leaderboards[tid]
               pool == tournaments[tid].xp_reward_pool
               n == Min(MAX_WINNERS, Len(lb))
               new == out.st.rewards
           IN  out.response.kind = "TournamentEnded" =>
                   /\ RewardsOf(new, tid)
                          = {<<tid, lb[i].wallet_address>> : i \in 1..n}
                   /\ \A i \in 1..n :
                          new[<<tid, lb[i].wallet_address>>] =
                              [tournament_id |-> tid,
                               wallet_address |-> lb[i].wallet_address,
                               rank |-> i,
                               xp_amount |-> (pool * <<40, 25, 15, 12, 8>>[i]) \div 100,
                               claimed |-> FALSE]
                   /\ \A k \in DOMAIN rewards :
                          k[1] # tid => k \in DOMAIN new /\ new[k] = rewards[k]
                   /\ (Len(lb) = 3 /\ pool = 10000) =>
                          [i \in 1..3 |-> new[<<tid, lb[i].wallet_address>>].xp_amount]
                              = <<4000, 2500, 1500>>
    /\ \A tid \in DOMAIN tournaments :
           /\ Cardinality(RewardsOf(rewards, tid)) <= MAX_WINNERS
           /\ SumOver([k \in DOMAIN rewards |-> rewards[k].xp_amount],
                      RewardsOf(rewards, tid)) <= tournaments[tid].xp_reward_pool

\* a tournament with three entries has ended and paid 4000, 2500 and 1500
C11_Witness ==
    \E tid \in DOMAIN tournaments :
        /\ tournaments[tid].status = "Ended"
        /\ Len(leaderboards[tid]) = 3
        /\ tournaments[tid].xp_reward_pool = 10000
        /\ {rewards[k].xp_amount : k \in RewardsOf(rewards, tid)}
               = {4000, 2500, 1500}

\* C12: a reward row is never removed, its amount never changes and its
\* claimed flag never goes back to false; the flag becomes true only by a
\* ClaimReward of a signer bound to the wallet, which answers RewardClaimed;
\* and in a state with rewards that a step leaves, a claim without a row
\* answers that no reward was found, a claim of a claimed row answers that it
\* was already claimed, both without a write, and a claim of an unclaimed row
\* succeeds.
C12_ClaimOnce ==
    [][/\ \A k \in DOMAIN rewards :
              /\ k \in DOMAIN rewards'
              /\ rewards[k].claimed => rewards'[k].claimed
              /\ rewards'[k].xp_amount = rewards[k].xp_amount
       /\ \A k \in DOMAIN rewards :
              (~rewards[k].claimed /\ rewards'[k].claimed) =>
                  \E s \in Signers :
                      /\ get_wallet_for_signer(Store, s) = Some(k[2])
                      /\ claim_reward(Store, s, k[1]).response
                             = RewardClaimed(k[1], rewards[k].xp_amount)
                      /\ Store' = claim_reward(Store, s, k[1]).st
       /\ \A s \in Signers, tid \in TournamentIdInputs :
              LET bound == get_wallet_for_signer(Store', s)
                  key == <<tid, bound.val>>
                  out == claim_reward(Store', s, tid)
              IN  (bound.some /\ DOMAIN rewards' # {}) =>
                      IF key \notin DOMAIN rewards'
                      THEN /\ out.response
                                = Error("No reward found for this tournament")
                           /\ out.st = Store'
                      ELSE IF rewards'[key].claimed
                      THEN /\ out.response = Error("Reward already claimed")
                           /\ out.st = Store'
                      ELSE /\ out.response
                                = RewardClaimed(tid, rewards'[key].xp_amount)
                           /\ out.st.rewards[key].claimed]_vars

\* a reward has been claimed by a signer that is still bound to its wallet,
\* and another reward of the tournament has not been claimed
C12_Witness ==
    \E k1, k2 \in DOMAIN rewards :
        /\ k1[1] = k2[1]
        /\ rewards[k1].claimed
        /\ ~rewards[k2].claimed
        /\ \E s \in Signers : get_wallet_for_signer(Store, s) = Some(k1[2])

C14_RewardsOnlyWhenEnded ==
    \A k \in DOMAIN rewards :
        /\ k[1] \in DOMAIN tournaments
        /\ tournaments[k[1]].status = "Ended"
        /\ rewards[k].tournament_id = k[1]

\* one tournament has ended with rewards while another is Active, with
\* entries of its own or none, and has no reward
C14_Witness ==
    \E t1, t2 \in DOMAIN tournaments :
        /\ RewardsOf(rewards, t1) # {}
        /\ tournaments[t2].status = "Active"
        /\ RewardsOf(rewards, t2) = {}

\* C15: BootstrapTournament again, at once or later, leaves the store the
\* first BootstrapTournament left; when tournament 1 exists the first one
\* changes neither the tournaments map nor a leaderboard, run, participant
\* row or counter, and reports already_existed; on a store without
\* tournament 1 the first one creates it and the second changes nothing.
C15_BootstrapIdempotent ==
    /\ \A t2 \in Times :
           t2 >= now =>
               LET once == bootstrap_tournament(Store, now)
                   twice == bootstrap_tournament(once.st, t2)
                   thrice == bootstrap_tournament(twice.st, t2)
               IN  /\ twice.st = once.st
                   /\ thrice.st = once.st
                   /\ twice.response = once.response
                   /\ 1 \in DOMAIN tournaments =>
                          /\ once.response = TournamentBootstrapped(
                                 1, tournaments[1].end_time, TRUE)
                          /\ once.st = [Store EXCEPT
                                           !.active_tournament = Some(tournaments[1]),
                                           !.active_tournament_id = Some(1)]
    /\ \A t1, t2 \in Times :
           t1 <= t2 =>
               LET once == bootstrap_tournament(EmptyStore, t1)
                   twice == bootstrap_tournament(once.st, t2)
               IN  /\ once.response = TournamentBootstrapped(
                          1, t1 + DURATION_DAYS, FALSE)
                   /\ twice.response = TournamentBootstrapped(
                          1, t1 + DURATION_DAYS, TRUE)
                   /\ twice.st = once.st

\* BootstrapTournament has published tournament 1 again after it ended with
\* runs and after the handle had moved to a later tournament
C15_Witness ==
    /\ 2 \in DOMAIN tournaments
    /\ active_tournament_id = Some(1)
    /\ active_tournament.some
    /\ active_tournament.val.status = "Ended"
    /\ tournaments[1].total_runs > 0

\* C16: a RegisterPlayer that succeeded, repeated by the same signer with the
\* same wallet and username, at once or later, answers PlayerRegistered and
\* leaves the store as the first one left it.
C16_RegisterAgain ==
    \A in \in RegisterInputs :
        LET out == register_player(Store, in[1], in[2], in[3], now)
        IN  out.response.kind = "PlayerRegistered" =>
                \A t2 \in Times :
                    t2 >= now =>
                        LET again == register_player(out.st, in[1], in[2], in[3], t2)
                        IN  /\ again.response = PlayerRegistered(in[2])
                            /\ again.st = out.st
                            /\ again.messages = <<>>

\* a signer has registered a wallet under a name and is bound to it
C16_Witness ==
    \E in \in RegisterInputs :
        /\ get_wallet_for_signer(Store, in[1]) = Some(in[2])
        /\ in[2] \in DOMAIN players
        /\ players[in[2]].username = in[3]
        /\ in[3] \in DOMAIN username_to_wallet
        /\ username_to_wallet[in[3]] = in[2]

\* C17 as stated: RegisterPlayer with a username that is mapped to another
\* wallet answers that the username is taken and leaves the store as it was,
\* whether or not the given wallet has a Player row.
C17_UsernameTakenRejected ==
    \A in \in RegisterInputs :
        (/\ in[3] \in DOMAIN username_to_wallet
         /\ username_to_wallet[in[3]] # in[2]) =>
            LET out == register_player(Store, in[1], in[2], in[3], now)
            IN  /\ out.response = Error("Username already taken")
                /\ out.st = Store

\* C18 as stated: CreateTournament with duration_days = 0 answers an error
\* and leaves the store as it was, and every stored tournament starts before
\* it ends.
C18_ZeroDurationRejected ==
    /\ \A input \in CreateInputs :
           input[2] = 0 =>
               LET out == create_tournament(Store, input, now)
               IN  /\ out.response.kind = "Error"
                   /\ out.st = Store
    /\ \A tid \in DOMAIN tournaments :
           tournaments[tid].start_time < tournaments[tid].end_time

\* C19: calculate_xp returns
\*   max(10, (base + completion_bonus + time_bonus) * (100 - min(10*deaths, 50)) / 100)
\* with base 75, 100, 125, 150 for Easy, Medium, Hard, Nightmare,
\* completion_bonus = base if completed, else 0, and
\* time_bonus = base * (120 - time_ms/1000) / 120 if completed and
\* time_ms/1000 < 120, else 0, in integer division; and the four worked
\* examples give 250, 125, 75 and 37.
C19_CalculateXp ==
    /\ (xp_call # None /\ xp_call.result # None) =>
           LET base == [Easy |-> 75, Medium |-> 100, Hard |-> 125,
                        Nightmare |-> 150][xp_call.difficulty]
               secs == xp_call.time_ms \div 1000
               completion == IF xp_call.completed THEN base ELSE 0
               bonus == IF xp_call.completed /\ secs < 120
                        THEN (base * (120 - secs)) \div 120
                        ELSE 0
               penalty == IF 10 * xp_call.deaths < 50
                          THEN 10 * xp_call.deaths ELSE 50
               raw == ((base + completion + bonus) * (100 - penalty)) \div 100
           IN  xp_call.result = Some(IF raw > 10 THEN raw ELSE 10)
    /\ calculate_xp("Medium", 60000, 0, TRUE) = 250
    /\ calculate_xp("Hard", 180000, 10, TRUE) = 125
    /\ calculate_xp("Easy", 500000, 0, FALSE) = 75
    /\ calculate_xp("Easy", 500000, 6, FALSE) = 37

\* the call Hard, 180 s, 10 deaths, completed has returned 125: the penalty is
\* capped and there is no time bonus
C19_Witness ==
    /\ xp_call # None
    /\ xp_call.difficulty = "Hard"
    /\ xp_call.time_ms = 180000
    /\ xp_call.deaths = 10
    /\ xp_call.completed
    /\ xp_call.result = Some(125)

\* C20: an operation that answers Error leaves every map, register and
\* counter as it was and sends no message, for every operation and input.
C20_ErrorsChangeNothing ==
    LET Aborts(out) == out.response.kind = "Error" =>
                           /\ out.st = Store
                           /\ out.messages = <<>>
    IN  /\ Aborts(not_authenticated(Store))
        /\ Aborts(bootstrap_tournament(Store, now))
        /\ \A in \in RegisterInputs :
               Aborts(register_player(Store, in[1], in[2], in[3], now))
        /\ \A s \in Signers, in \in SubmitInputs :
               Aborts(submit_run(Store, s, in[1], in[2], now))
        /\ \A input \in CreateInputs :
               Aborts(create_tournament(Store, input, now))
        /\ \A tid \in TournamentIdInputs :
               Aborts(end_tournament(Store, tid, now))
        /\ \A s \in Signers, tid \in TournamentIdInputs :
               Aborts(claim_reward(Store, s, tid))

\* RegisterPlayer, SubmitRun, EndTournament and ClaimReward each answer Error
\* for some input, RegisterPlayer because the username is taken
C20_Witness ==
    /\ \E in \in RegisterInputs :
           register_player(Store, in[1], in[2], in[3], now)
               = Outcome(Store, Error("Username already taken"), <<>>)
    /\ \E s \in Signers, in \in SubmitInputs :
           submit_run(Store, s, in[1], in[2], now).response.kind = "Error"
    /\ \E tid \in TournamentIdInputs :
           end_tournament(Store, tid, now).response.kind = "Error"
    /\ \E s \in Signers, tid \in TournamentIdInputs :
           claim_reward(Store, s, tid).response
               = Error("Reward already claimed")

\* C21: the GameRun ids are exactly 1..next_run_id-1 and the tournament ids
\* exactly 1..next_tournament_id-1, before and after every step; a step adds
\* at most the id its counter held and never lowers a counter; and a GameRun
\* row, once inserted, stays as it was inserted.
C21_DenseAppendOnly ==
    [][/\ DOMAIN runs = 1..(next_run_id - 1)
       /\ DOMAIN runs' = 1..(next_run_id' - 1)
       /\ DOMAIN tournaments = 1..(next_tournament_id - 1)
       /\ DOMAIN tournaments' = 1..(next_tournament_id' - 1)
       /\ next_run_id' \in {next_run_id, next_run_id + 1}
       /\ next_tournament_id' \in {next_tournament_id, next_tournament_id + 1}
       /\ \A id \in DOMAIN runs' : runs'[id].id = id
       /\ \A id \in DOMAIN tournaments' : tournaments'[id].id = id
       /\ \A id \in DOMAIN runs : runs'[id] = runs[id]]_vars

\* two runs and two tournaments have been recorded
C21_Witness ==
    /\ DOMAIN runs = {1, 2}
    /\ next_run_id = 3
    /\ DOMAIN tournaments = {1, 2}
    /\ next_tournament_id = 3

\* C22 as stated: every TournamentPlayer row (tid, w) with a finite
\* best_time_ms has an entry of w with the same best_time_ms in the
\* leaderboard of tid, however many wallets have played.
C22_FiniteTimeOnLeaderboard ==
    \A key \in DOMAIN tournament_players :
        tournament_players[key].best_time_ms < U64_MAX =>
            /\ key[1] \in DOMAIN leaderboards
            /\ \E i \in 1..Len(leaderboards[key[1]]) :
                   /\ leaderboards[key[1]][i].wallet_address = key[2]
                   /\ leaderboards[key[1]][i].best_time_ms
                          = tournament_players[key].best_time_ms

\* the id of the first completed run of wallet w in tournament tid with
\* time best: the run that achieved it
AchievedAt(tid, w, best) ==
    LET ids == {id \in DOMAIN runs : /\ runs[id].tournament_id = tid
                                      /\ runs[id].wallet_address = w
                                      /\ runs[id].completed
                                      /\ runs[id].time_ms = best}
    IN  IF ids = {} THEN 0 ELSE CHOOSE id \in ids : \A other \in ids : id <= other

\* C23: of two leaderboard entries of a tournament with the same finite
\* best_time_ms, the one whose wallet achieved that time with an earlier run
\* has the smaller rank. Stated for neighbours on the board, which is ordered
\* by best_time_ms and ranked by position, so that it holds for every pair:
\* of two neighbours as fast as each other the one ahead achieved the time
\* first; and every finite time on the board was achieved by a recorded run.
C23_TiesByAcceptance ==
    \A tid \in DOMAIN leaderboards :
        LET board == leaderboards[tid]
            at(i) == AchievedAt(tid, board[i].wallet_address, board[i].best_time_ms)
        IN  \A i \in 1..Len(board) :
                /\ board[i].rank = i
                /\ board[i].best_time_ms < U64_MAX => at(i) > 0
                /\ i < Len(board) =>
                       /\ board[i].best_time_ms <= board[i + 1].best_time_ms
                       /\ (/\ board[i].best_time_ms = board[i + 1].best_time_ms
                           /\ board[i].best_time_ms < U64_MAX) =>
                              at(i) < at(i + 1)

\* wallet B was truncated out of the full leaderboard by its first run (as
\* slow as wallet A's, and later), and its second run, as fast as the
\* crowd's, has put it back on the board behind the 99 it ties with
C23_Witness ==
    /\ DOMAIN runs = 1..(LEADERBOARD_CAP + 2)
    /\ runs[LEADERBOARD_CAP].wallet_address = WalletA
    /\ runs[LEADERBOARD_CAP].time_ms = RunSlow[1]
    /\ runs[LEADERBOARD_CAP + 1].wallet_address = WalletB
    /\ runs[LEADERBOARD_CAP + 1].time_ms = RunSlow[1]
    /\ runs[LEADERBOARD_CAP + 2].wallet_address = WalletB
    /\ runs[LEADERBOARD_CAP + 2].time_ms = RunCrowd[1]
    /\ Len(leaderboards[1]) = LEADERBOARD_CAP
    /\ leaderboards[1][LEADERBOARD_CAP].wallet_address = WalletB
    /\ leaderboards[1][LEADERBOARD_CAP].best_time_ms = RunCrowd[1]
    /\ leaderboards[1][1].best_time_ms = RunCrowd[1]

\* C24: with n runs recorded so far, recent_runs holds the ids n, n-1, ...
\* of the min(100, n) runs inserted last, newest first (so in strictly
\* descending order and without duplicates), and each id is that of an
\* existing GameRun.
C24_RecentRuns ==
    LET n == Cardinality(DOMAIN runs)
    IN  /\ Len(recent_runs) = Min(RECENT_CAP, n)
        /\ \A i \in 1..Len(recent_runs) :
               /\ recent_runs[i] = n - i + 1
               /\ recent_runs[i] \in DOMAIN runs
               /\ runs[recent_runs[i]].id = recent_runs[i]

\* one run more than recent_runs holds has been recorded: the oldest id has
\* been dropped
C24_Witness ==
    /\ Cardinality(DOMAIN runs) = RECENT_CAP + 1
    /\ Len(recent_runs) = RECENT_CAP
    /\ recent_runs[1] = RECENT_CAP + 1
    /\ recent_runs[RECENT_CAP] = 2

\* what C25 says of the store st after Init at time t0 (DURATION_DAYS days
\* are 15 * 86400 * 10^6 microseconds)
C25_Described(st, t0) ==
    /\ DOMAIN st.tournaments = {1}
    /\ st.tournaments[1].id = 1
    /\ st.tournaments[1].status = "Active"
    /\ st.tournaments[1].start_time = t0
    /\ st.tournaments[1].end_time = t0 + 15
    /\ st.tournaments[1].difficulty = "Medium"
    /\ st.tournaments[1].xp_reward_pool = 10000
    /\ st.tournaments[1].participant_count = 0
    /\ st.tournaments[1].total_runs = 0
    /\ st.next_tournament_id = 2
    /\ st.next_run_id = 1
    /\ DOMAIN st.leaderboards = {1}
    /\ st.leaderboards[1] = <<>>
    /\ st.recent_runs = <<>>
    /\ st.active_tournament_id = Some(1)
    /\ st.active_tournament = Some(st.tournaments[1])

\* C25: immediately after Init at time t0 the store holds exactly one
\* tournament, id 1, Active, from t0 to t0 + 15 days, Medium, pool 10000, no
\* participants and no runs; next_tournament_id = 2, next_run_id = 1; the
\* leaderboard of tournament 1 and recent_runs are empty; the active handle
\* points at id 1. Stated of the first state, and of instantiate at every
\* time of the clock.
C25_InitialState ==
    /\ C25_Described(Store, now)
    /\ [](\A t0 \in Times : C25_Described(instantiate(t0), t0))

\* the state Init leaves: nothing has been sent, no player exists
C25_Witness ==
    /\ Store = instantiate(now)
    /\ inbox = <<>>
    /\ DOMAIN players = {}

\* C26 as stated: a signer that is bound to a wallet stays bound to that
\* wallet in every step.
C26_BindingNeverChanges ==
    [][\A s \in DOMAIN signer_to_wallet :
           /\ s \in DOMAIN signer_to_wallet'
           /\ signer_to_wallet'[s] = signer_to_wallet[s]]_vars

\* C27 as stated: a SubmitRun that answers Ok has sent one ApplyRun message,
\* and the delivery of that message, now or at any later time, records
\* exactly one GameRun row with the submission's wallet, tournament_id,
\* time_ms, score, deaths and completed.
C27_AcceptedIsRecorded ==
    \A s \in Signers, in \in SubmitInputs, t2 \in Times :
        LET out == submit_run(Store, s, in[1], in[2], now)
        IN  (out.response = Ok /\ t2 >= now) =>
                /\ Len(out.messages) = 1
                /\ LET m == out.messages[1]
                       st == execute_message(out.st, m, t2)
                       id == out.st.next_run_id
                   IN  /\ DOMAIN st.runs = DOMAIN out.st.runs \cup {id}
                       /\ id \notin DOMAIN out.st.runs
                       /\ st.runs[id].wallet_address = m.wallet_address
                       /\ st.runs[id].tournament_id = in[1]
                       /\ st.runs[id].time_ms = in[2][1]
                       /\ st.runs[id].score = in[2][2]
                       /\ st.runs[id].deaths = in[2][4]
                       /\ st.runs[id].completed = in[2][5]

\* the GameRun rows and the TournamentPlayer rows of tournament tid
RunRowsOf(tid) == {runs[id] : id \in RunsOf(tid)}
PlayerRowsOf(tid) == {<<key, tournament_players[key]>> : key \in ParticipantsOf(tid)}

\* C28: once a tournament is Ended, no step changes its leaderboard, its
\* participant_count, its total_runs, its GameRun rows or its
\* TournamentPlayer rows.
C28_FrozenWhenEnded ==
    [][\A tid \in DOMAIN tournaments :
           tournaments[tid].status = "Ended" =>
               /\ tid \in DOMAIN tournaments'
               /\ tid \in DOMAIN leaderboards'
               /\ leaderboards'[tid] = leaderboards[tid]
               /\ tournaments'[tid].participant_count
                      = tournaments[tid].participant_count
               /\ tournaments'[tid].total_runs = tournaments[tid].total_runs
               /\ RunRowsOf(tid)' = RunRowsOf(tid)
               /\ PlayerRowsOf(tid)' = PlayerRowsOf(tid)]_vars

\* tournament 1 has ended with a wallet on its leaderboard, and an ApplyRun
\* message for it is still to be delivered
C28_Witness ==
    /\ tournaments[1].status = "Ended"
    /\ Len(leaderboards[1]) = 1
    /\ inbox # <<>>
    /\ Head(inbox).tournament_id = 1

\* C29: a SubmitRun by a signer that is not bound, if the signer is an
\* Address20, binds the signer to that address and, if the address has no
\* Player row, creates one with zeroed aggregates and the username
\* Player_<hex of the first 4 bytes>, leaving an existing row as it is; if
\* the signer has any other form it answers that the player is not
\* registered, sends no message and changes nothing.
C29_AutoBind ==
    \A s \in Signers, in \in SubmitInputs :
        s \notin DOMAIN signer_to_wallet =>
            LET out == submit_run(Store, s, in[1], in[2], now)
                w == s[2]
            IN  IF s[1] = "Address20"
                THEN /\ out.response = Ok
                     /\ out.st.signer_to_wallet = Put(signer_to_wallet, s, w)
                     /\ out.messages[1].wallet_address = w
                     /\ IF w \in DOMAIN players
                        THEN /\ out.st.players = players
                             /\ out.st.username_to_wallet = username_to_wallet
                        ELSE /\ DOMAIN out.st.players = DOMAIN players \cup {w}
                             /\ \A other \in DOMAIN players :
                                    out.st.players[other] = players[other]
                             /\ out.st.players[w].wallet_address = w
                             /\ out.st.players[w].username = <<"Player_", w[1]>>
                             /\ out.st.players[w].total_xp = 0
                             /\ out.st.players[w].total_runs = 0
                             /\ out.st.players[w].tournaments_played = 0
                             /\ out.st.players[w].tournaments_won = 0
                             /\ out.st.players[w].best_time_ms = None
                ELSE /\ out.response
                          = Error("Player not registered. Call registerPlayer first.")
                     /\ out.messages = <<>>
                     /\ out.st = Store

\* the Address20 signer has been bound to its own address by a SubmitRun
\* that created the Player row, and the other signer is still unbound
C29_Witness ==
    /\ SignerA \in DOMAIN signer_to_wallet
    /\ signer_to_wallet[SignerA] = WalletA
    /\ WalletA \in DOMAIN players
    /\ players[WalletA].username = DefaultUsername(WalletA)
    /\ SignerX \notin DOMAIN signer_to_wallet

\* C30: an EndTournament(tid) that succeeds adds 1 to tournaments_won of the
\* wallet at rank 1 of tid's leaderboard, if there is one, and leaves the
\* tournaments_won of every other player as it was; and in every state a
\* player's tournaments_won is the number of Ended tournaments in which the
\* wallet holds the reward of rank 1.
C30_TournamentsWon ==
    /\ \A tid \in TournamentIdInputs :
           LET out == end_tournament(Store, tid, now)
           IN  out.response.kind = "TournamentEnded" =>
                   /\ DOMAIN out.st.players = DOMAIN players
                   /\ \A w \in DOMAIN players :
                          out.st.players[w].tournaments_won
                            = players[w].tournaments_won
                              + (IF \E i \in 1..Len(leaderboards[tid]) :
                                        /\ leaderboards[tid][i].rank = 1
                                        /\ leaderboards[tid][i].wallet_address = w
                                 THEN 1 ELSE 0)
                   /\ Len(leaderboards[tid]) > 0 =>
                          \E w \in DOMAIN players :
                              out.st.players[w].tournaments_won
                                = players[w].tournaments_won + 1
    /\ \A w \in DOMAIN players :
           players[w].tournaments_won
             = Cardinality({tid \in DOMAIN tournaments :
                               /\ tournaments[tid].status = "Ended"
                               /\ <<tid, w>> \in DOMAIN rewards
                               /\ rewards[<<tid, w>>].rank = 1})

\* tournament 1 has ended with five rewards: the wallet of rank 1 has won one
\* tournament, the wallet of rank 2 none
C30_Witness ==
    /\ tournaments[1].status = "Ended"
    /\ Cardinality(RewardsOf(rewards, 1)) = MAX_WINNERS
    /\ players[leaderboards[1][1].wallet_address].tournaments_won = 1
    /\ players[leaderboards[1][2].wallet_address].tournaments_won = 0

\* C31: in a call of calculate_xp no value computed on the way is negative
\* or beyond u64::MAX, for times up to u64::MAX and deaths up to u32::MAX;
\* the result r is the floor at 10 of the last of them and satisfies
\* 10 <= r <= 3 * base <= 450; and one more death never gives more XP.
C31_XpSafeAndBounded ==
    (xp_call # None /\ xp_call.result # None) =>
        LET steps == calculate_xp_steps(xp_call.difficulty, xp_call.time_ms,
                                        xp_call.deaths, xp_call.completed)
            r == xp_call.result.val
        IN  /\ \A f \in DOMAIN steps : steps[f] >= 0 /\ steps[f] <= U64_MAX
            /\ xp_call.deaths * 10 <= U64_MAX
            /\ r = (IF steps.raw_xp > 10 THEN steps.raw_xp ELSE 10)
            /\ 10 <= r
            /\ r <= 3 * steps.base
            /\ r <= 450
            /\ xp_call.deaths < U32_MAX =>
                   calculate_xp(xp_call.difficulty, xp_call.time_ms,
                                xp_call.deaths + 1, xp_call.completed) <= r
            /\ \A more \in XpDeaths :
                   more >= xp_call.deaths =>
                       calculate_xp(xp_call.difficulty, xp_call.time_ms,
                                    more, xp_call.completed) <= r

\* a completed Nightmare run of u64::MAX milliseconds with u32::MAX deaths
\* has returned 150: no time bonus, the penalty at its cap
C31_Witness ==
    /\ xp_call # None
    /\ xp_call.difficulty = "Nightmare"
    /\ xp_call.time_ms = U64_MAX
    /\ xp_call.deaths = U32_MAX
    /\ xp_call.completed
    /\ xp_call.result = Some(150)

\* the ids of the runs of wallet w, and of those in tournament tid
RunsOfWallet(w) == {id \in DOMAIN runs : runs[id].wallet_address = w}
RunsOfPlayer(tid, w) == {id \in RunsOfWallet(w) : runs[id].tournament_id = tid}

\* the least time_ms of the completed runs among ids, none if there is none
BestTimeOf(ids) ==
    LET done == {id \in ids : runs[id].completed}
    IN  IF done = {} THEN None
        ELSE Some(runs[CHOOSE id \in done :
                           \A other \in done :
                               runs[id].time_ms <= runs[other].time_ms].time_ms)

\* C32: every TournamentPlayer row (tid, w) can be recomputed from the
\* GameRun rows of w in tid: best_time_ms is the least time_ms of the
\* completed ones (u64::MAX if none), best_score the greatest score,
\* total_runs their number, total_xp_earned the sum of their xp_earned; and
\* every Player row w from the rows of w: total_runs is the number of w's
\* runs, tournaments_played the number of TournamentPlayer rows of w,
\* best_time_ms the least time_ms of w's completed runs (None if none).
C32_AggregatesFromRuns ==
    /\ \A key \in DOMAIN tournament_players :
           LET tp == tournament_players[key]
               ids == RunsOfPlayer(key[1], key[2])
               best == BestTimeOf(ids)
           IN  /\ tp.best_time_ms = (IF best.some THEN best.val ELSE U64_MAX)
               /\ \A id \in ids : runs[id].score <= tp.best_score
               /\ \/ \E id \in ids : runs[id].score = tp.best_score
                  \/ ids = {} /\ tp.best_score = 0
               /\ tp.total_runs = Cardinality(ids)
               /\ tp.total_xp_earned
                      = SumOver([id \in DOMAIN runs |-> runs[id].xp_earned], ids)
    /\ \A w \in DOMAIN players :
           /\ players[w].total_runs = Cardinality(RunsOfWallet(w))
           /\ players[w].tournaments_played
                  = Cardinality({key \in DOMAIN tournament_players : key[2] = w})
           /\ players[w].best_time_ms = BestTimeOf(RunsOfWallet(w))
    /\ \A id \in DOMAIN runs :
           /\ <<runs[id].tournament_id, runs[id].wallet_address>>
                  \in DOMAIN tournament_players
           /\ runs[id].wallet_address \in DOMAIN players

\* a wallet's second run was slower than its first: the best time is still
\* that of the first, and two runs are counted
C32_Witness ==
    /\ DOMAIN runs = {1, 2}
    /\ runs[1].wallet_address = runs[2].wallet_address
    /\ runs[1].time_ms = RunFast[1]
    /\ runs[2].time_ms = RunSlow[1]
    /\ tournament_players[<<1, runs[1].wallet_address>>].best_time_ms = RunFast[1]
    /\ tournament_players[<<1, runs[1].wallet_address>>].total_runs = 2
    /\ players[runs[1].wallet_address].best_time_ms = Some(RunFast[1])

\* C33: no wallet has two entries in a tournament's leaderboard, and every
\* entry of wallet w in the leaderboard of tid has the best_time_ms,
\* best_score, total_runs and total_xp of the TournamentPlayer row (tid, w),
\* which exists.
C33_LeaderboardProjection ==
    \A tid \in DOMAIN leaderboards :
        LET board == leaderboards[tid]
        IN  /\ Cardinality({board[i].wallet_address : i \in 1..Len(board)})
                  = Len(board)
            /\ \A i \in 1..Len(board) :
                   LET key == <<tid, board[i].wallet_address>>
                   IN  /\ key \in DOMAIN tournament_players
                       /\ board[i].best_time_ms = tournament_players[key].best_time_ms
                       /\ board[i].best_score = tournament_players[key].best_score
                       /\ board[i].total_runs = tournament_players[key].total_runs
                       /\ board[i].total_xp = tournament_players[key].total_xp_earned

\* a wallet with two runs has one entry, updated in place, on a leaderboard
\* it shares with the wallets that were there before
C33_Witness ==
    /\ Len(leaderboards[1]) = MAX_WINNERS - 1
    /\ \E i \in 1..Len(leaderboards[1]) :
           /\ leaderboards[1][i].wallet_address = WalletA
           /\ leaderboards[1][i].total_runs = 2
           /\ leaderboards[1][i].best_time_ms = RunFast[1]

\* C34 as stated: a tournament the active-tournament query returns is a row
\* of the tournaments map of the store, equal to it in every field.
C34_QueryObservesStore ==
    LET answer == query_active_tournament(Store)
    IN  answer.some =>
            /\ answer.val.id \in DOMAIN tournaments
            /\ tournaments[answer.val.id] = answer.val

\* C35 as stated: the tournament held in the active_tournament register is
\* equal in every field to the row of its id in the tournaments map, and
\* active_tournament_id, when it is set, is the id of that tournament.
C35_CopiesAgree ==
    active_tournament.some =>
        /\ active_tournament.val.id \in DOMAIN tournaments
        /\ tournaments[active_tournament.val.id] = active_tournament.val
        /\ active_tournament_id.some =>
               active_tournament_id = Some(active_tournament.val.id)

\* C36 as stated: the tournament active_tournament_id designates exists and
\* is Active.
C36_HandleIsActive ==
    active_tournament_id.some =>
        /\ active_tournament_id.val \in DOMAIN tournaments
        /\ tournaments[active_tournament_id.val].status = "Active"

\* the ApplyRun messages a SubmitRun can send from the store as it is, and
\* the ones in flight
ApplyRunMessages ==
    {submit_run(Store, s, in[1], in[2], now).messages[1] :
        s \in {x \in Signers : SignerResolves(x)}, in \in SubmitInputs}
    \cup {inbox[i] : i \in 1..Len(inbox)}

\* C37: an ApplyRun message that finds no tournament in the register, or one
\* of another id, or one that is not Active, or one whose end_time has come,
\* leaves the store as it was: counters, runs, recent_runs, players,
\* tournament players, leaderboards, tournaments and the register.
C37_InvalidMessageDropped ==
    \A m \in ApplyRunMessages :
        /\ (\/ ~active_tournament.some
            \/ active_tournament.val.id # m.tournament_id
            \/ active_tournament.val.status # "Active"
            \/ now >= active_tournament.val.end_time) =>
               execute_message(Store, m, now) = Store
        /\ execute_message(EmptyStore, m, now) = EmptyStore

\* ApplyRun messages for tournament 1 are refused as late and as sent to a
\* tournament that is not Active (the register holds the Ended tournament),
\* one of them is in flight, and messages for tournament 3 are refused as well
C37_Witness ==
    /\ inbox # <<>>
    /\ Head(inbox).tournament_id = 1
    /\ active_tournament.some
    /\ active_tournament.val.status = "Ended"
    /\ now >= active_tournament.val.end_time
    /\ \E m \in ApplyRunMessages : m.tournament_id = 3
    /\ DOMAIN runs # {}

=============================================================================
